---- MODULE Spec2Model ----
(***************************************************************************)
(* Model of the damage estimator and the action scorer of                  *)
(* showdown_agent/scripts/players/qsag699.py.                              *)
(*                                                                         *)
(* Numbers.  The program computes with Python floats.  The model computes  *)
(* with exact fractions [ok, n, d] (n/d in lowest terms, d > 0); a value   *)
(* with ok = FALSE stands for a raised exception (ZeroDivisionError,       *)
(* AttributeError or TypeError) and is propagated by every operation, as   *)
(* an exception propagates through the callers, none of which catches.     *)
(*                                                                         *)
(* Absent values.  Python's None is the record NoPokemon / NoMove for an   *)
(* entity and the string "None" for an optional attribute; an unset live   *)
(* stat is 0 (None and 0 are both falsy in "stat or base_stat").           *)
(***************************************************************************)
EXTENDS Integers, Sequences, FiniteSets, TLC

VARIABLES battle, move, pc, modifiers, damage, values, weights, scores, best_action, result

vars == <<battle, move, pc, modifiers, damage, values, weights, scores, best_action, result>>

(***************************************************************************)
(* Fractions standing for Python floats                                    *)
(***************************************************************************)
RECURSIVE GCD(_, _)
GCD(a, b) == IF b = 0 THEN a ELSE GCD(b, a % b)

Abs(x) == IF x < 0 THEN -x ELSE x

\* n/d divided through by g, a common divisor.
Lowest(n, d, g) == [ok |-> TRUE, n |-> n \div g, d |-> d \div g]

\* n/d in lowest terms with a positive denominator (d # 0).
R(n, d) ==
    IF d < 0 THEN Lowest(-n, -d, GCD(Abs(n), Abs(d)))
    ELSE Lowest(n, d, GCD(Abs(n), Abs(d)))

\* A raised exception.
Raised == [ok |-> FALSE, n |-> 0, d |-> 1]

Num(k) == [ok |-> TRUE, n |-> k, d |-> 1]

Zero == Num(0)

One == Num(1)

RMul(a, b) ==
    IF ~a.ok \/ ~b.ok THEN Raised
    ELSE R(a.n * b.n, a.d * b.d)

\* Python's "/": ZeroDivisionError on a zero divisor.
RDiv(a, b) ==
    IF ~a.ok \/ ~b.ok THEN Raised
    ELSE IF b.n = 0 THEN Raised
    ELSE RMul(a, R(b.d, b.n))

RAdd(a, b) ==
    IF ~a.ok \/ ~b.ok THEN Raised
    ELSE R(a.n * b.d + b.n * a.d, a.d * b.d)

RSub(a, b) ==
    IF ~a.ok \/ ~b.ok THEN Raised
    ELSE R(a.n * b.d - b.n * a.d, a.d * b.d)

\* a < b and a <= b on two numbers (never applied to Raised).
RLt(a, b) == a.n * b.d < b.n * a.d

RLe(a, b) == a.n * b.d <= b.n * a.d

\* Python's min(a, b) / max(a, b): the first argument wins a tie.
RMin(a, b) ==
    IF ~a.ok \/ ~b.ok THEN Raised ELSE IF RLt(b, a) THEN b ELSE a

RMax(a, b) ==
    IF ~a.ok \/ ~b.ok THEN Raised ELSE IF RLt(a, b) THEN b ELSE a

(***************************************************************************)
(* Constants of the program                                                *)
(***************************************************************************)
GUARANTEED_CRITICAL_MOVES ==
    {"Storm Throw", "Frost Breath", "Zippy Zap", "Surging Strikes",
     "Wicked Blow", "Flower Trick"}

HEALING_MOVES ==
    {"Recover", "Roost", "Slack Off", "Soft-Boiled", "Milk Drink",
     "Synthesis", "Morning Sun", "Moonlight", "Shore Up"}

FIRST_ACTING_WEIGHTS ==
    [switch |-> R(1, 1), attack |-> R(9, 10), heal |-> R(7, 10), status |-> R(1, 1)]

LAST_ACTING_WEIGHTS ==
    [switch |-> R(1, 1), attack |-> R(7, 10), heal |-> R(9, 10), status |-> R(1, 1)]

\* The types the type chart has a row and a column for (the part of the
\* generation 9 chart that the program's special cases name).
ChartTypes ==
    {"Normal", "Fighting", "Flying", "Ground", "Ghost",
     "Fire", "Water", "Ice", "Psychic", "Dark"}

SuperEffective ==
    {<<"Fighting", "Normal">>, <<"Fighting", "Ice">>, <<"Fighting", "Dark">>,
     <<"Flying", "Fighting">>, <<"Ground", "Fire">>,
     <<"Ghost", "Ghost">>, <<"Ghost", "Psychic">>,
     <<"Fire", "Ice">>, <<"Water", "Fire">>, <<"Water", "Ground">>,
     <<"Ice", "Flying">>, <<"Ice", "Ground">>,
     <<"Psychic", "Fighting">>, <<"Dark", "Ghost">>, <<"Dark", "Psychic">>}

NotVeryEffective ==
    {<<"Fighting", "Flying">>, <<"Fighting", "Psychic">>,
     <<"Ghost", "Dark">>, <<"Fire", "Fire">>, <<"Fire", "Water">>,
     <<"Water", "Water">>, <<"Ice", "Fire">>, <<"Ice", "Water">>,
     <<"Ice", "Ice">>, <<"Psychic", "Psychic">>,
     <<"Dark", "Fighting">>, <<"Dark", "Dark">>}

NoEffect ==
    {<<"Normal", "Ghost">>, <<"Fighting", "Ghost">>, <<"Ground", "Flying">>,
     <<"Ghost", "Normal">>, <<"Psychic", "Dark">>}

\* TYPE_CHART[attacking][defending]: a dict of dicts of floats.
TYPE_CHART ==
    [a \in ChartTypes |->
        [d \in ChartTypes |->
            IF <<a, d>> \in SuperEffective THEN R(2, 1)
            ELSE IF <<a, d>> \in NotVeryEffective THEN R(1, 2)
            ELSE IF <<a, d>> \in NoEffect THEN Zero
            ELSE One]]

\* TYPE_CHART.get(a).get(d).  dict.get of a missing key is None: with no
\* row for a, None.get raises AttributeError; with no column for d the
\* lookup is None, and the arithmetic on it raises TypeError.
ChartGet(a, d) ==
    IF a \notin DOMAIN TYPE_CHART THEN Raised
    ELSE IF d \notin DOMAIN TYPE_CHART[a] THEN Raised
    ELSE TYPE_CHART[a][d]

(***************************************************************************)
(* Absent entities                                                         *)
(***************************************************************************)
NoMove == [id |-> "None", absent |-> TRUE]

NoPokemon == [species |-> "None", absent |-> TRUE]

DamagingCategories == {"PHYSICAL", "SPECIAL"}

(***************************************************************************)
(* Utility                                                                 *)
(***************************************************************************)
fetch_pokemon_types(pokemon) ==
    (IF pokemon.type_1 # "None" THEN <<pokemon.type_1>> ELSE <<>>)
    \o (IF pokemon.type_2 # "None" THEN <<pokemon.type_2>> ELSE <<>>)

fetch_move_type(m) == IF m.type # "None" THEN m.type ELSE "Normal"

fetch_move_name(m) == IF m.id # "" THEN m.id ELSE "Unknown Move"

\* "stats[k] or base_stats[k]"
EffectiveStat(pokemon, k) ==
    IF pokemon.stats[k] # 0 THEN pokemon.stats[k] ELSE pokemon.base_stats[k]

SeqToSet(s) == {s[i] : i \in DOMAIN s}

(***************************************************************************)
(* Base calculations: the modifiers of calculate_expected_damage           *)
(***************************************************************************)
calculate_level_ratio(attacker) == RAdd(R(2 * attacker.level, 5), Num(2))

calculate_attack_defense_ratio(attacker, defender, m) ==
    IF m.category = "PHYSICAL"
    THEN RDiv(Num(EffectiveStat(attacker, "atk")), Num(EffectiveStat(defender, "def")))
    ELSE IF m.category = "SPECIAL"
    THEN RDiv(Num(EffectiveStat(attacker, "spa")), Num(EffectiveStat(defender, "spd")))
    ELSE One

calculate_base_minus(attacker, defender, m) ==
    RSub(RDiv(RMul(RMul(calculate_level_ratio(attacker), Num(m.base_power)),
                   calculate_attack_defense_ratio(attacker, defender, m)),
              Num(50)),
         Num(2))

calculate_base(attacker, defender, m) ==
    RAdd(RDiv(RMul(RMul(calculate_level_ratio(attacker), Num(m.base_power)),
                   calculate_attack_defense_ratio(attacker, defender, m)),
              Num(50)),
         Num(2))

calculate_weather_bonus(m, weather) ==
    CASE weather = "PRIMORDIALSEA" ->
            IF fetch_move_type(m) = "Fire" THEN Zero
            ELSE IF fetch_move_type(m) = "Water" THEN R(3, 2) ELSE One
      [] weather = "DESOLATELAND" ->
            IF fetch_move_type(m) = "Water" THEN Zero
            ELSE IF fetch_move_type(m) = "Fire" THEN R(3, 2) ELSE One
      [] weather = "RAINDANCE" ->
            IF fetch_move_type(m) = "Water" THEN R(3, 2)
            ELSE IF fetch_move_type(m) = "Fire" THEN R(1, 2) ELSE One
      [] weather = "SUNNYDAY" ->
            IF fetch_move_name(m) = "Hydro Steam" THEN R(3, 2)
            ELSE IF fetch_move_type(m) = "Fire" THEN R(3, 2)
            ELSE IF fetch_move_type(m) = "Water" THEN R(1, 2) ELSE One
      [] OTHER -> One

calculate_glaive_bonus(defender) ==
    IF defender.effects = {} THEN One
    ELSE IF "GLAIVE_RUSH" \in defender.effects THEN R(2, 1) ELSE One

\* The modifier as the specification states it: the anti-critical abilities
\* first, then each of the three causes of a certain critical hit.
critical_hit_as_specified(attacker, defender, m) ==
    IF defender.ability \in {"Battle Armor", "Shell Armor"} THEN One
    ELSE IF \/ fetch_move_name(m) \in GUARANTEED_CRITICAL_MOVES
            \/ (defender.status = "PSN" /\ attacker.ability = "Merciless")
            \/ "LASER_FOCUS" \in attacker.effects
         THEN R(3, 2)
         ELSE One

calculate_determined_critical_hit(attacker, defender, m) ==
    IF defender.ability = "None" THEN One
    ELSE IF defender.ability = "Battle Armor" \/ defender.ability = "Shell Armor" THEN One
    ELSE IF fetch_move_name(m) \in GUARANTEED_CRITICAL_MOVES THEN R(3, 2)
    ELSE IF defender.status = "None" THEN One
    ELSE IF defender.status = "PSN" /\ attacker.ability = "Merciless" THEN R(3, 2)
    ELSE IF "LASER_FOCUS" \in attacker.effects THEN R(3, 2)
    ELSE One

calculate_burn_factor(attacker, m) ==
    IF m.category # "PHYSICAL" THEN One
    ELSE IF attacker.status # "BRN" THEN One
    ELSE IF attacker.ability = "Guts" THEN One
    ELSE IF fetch_move_name(m) = "Facade" THEN One
    ELSE R(1, 2)

\* One pass of the loop over the defender's types: the factor that
\* "multi" is multiplied by for defending_type.
\* "if <applies> and effectiveness == 0.0: effectiveness = 1.0"
lift_immunity(effectiveness, applies) ==
    IF applies /\ effectiveness = Zero THEN One ELSE effectiveness

\* "if <applies>: effectiveness = 1.0"
make_neutral(effectiveness, applies) == IF applies THEN One ELSE effectiveness

\* The chart entry after the five overrides, in the program's order:
\* Scrappy, Thousand Arrows, Ring Target, Foresight, Miracle Eye.
overridden_effectiveness(attacker, defender, m, defending_type) ==
    lift_immunity(
      lift_immunity(
        lift_immunity(
          make_neutral(
            lift_immunity(
              ChartGet(fetch_move_type(m), defending_type),
              attacker.ability = "Scrappy" /\ defending_type = "Ghost"
                /\ fetch_move_type(m) \in {"Normal", "Fighting"}),
            fetch_move_name(m) = "Thousand Arrows" /\ defending_type = "Flying"),
          defender.item # "None" /\ defender.item = "Ring Target"),
        "FORESIGHT" \in defender.effects /\ defending_type = "Ghost"
          /\ fetch_move_type(m) \in {"Normal", "Fighting"}),
      "MIRACLE_EYE" \in defender.effects /\ defending_type = "Dark"
        /\ fetch_move_type(m) = "Psychic")

type_factor(attacker, defender, m, defending_type) ==
    IF fetch_move_name(m) = "Flying Press"
    THEN RMul(ChartGet("Fighting", defending_type), ChartGet("Flying", defending_type))
    ELSE IF fetch_move_name(m) = "Freeze-Dry" /\ defending_type = "Water" THEN R(2, 1)
    \* TYPE_CHART.get(move_type) is None: .get on it raises before any override.
    \* A missing column leaves effectiveness None (no override but the
    \* Thousand Arrows one replaces it), and "multi *= None" raises.
    ELSE IF fetch_move_type(m) \notin DOMAIN TYPE_CHART THEN Raised
    ELSE overridden_effectiveness(attacker, defender, m, defending_type)

RECURSIVE type_product(_, _, _, _, _)
type_product(attacker, defender, m, types, multi) ==
    IF types = <<>> THEN multi
    ELSE type_product(attacker, defender, m, Tail(types),
                      RMul(multi, type_factor(attacker, defender, m, Head(types))))

calculate_type_effectiveness(attacker, defender, m, weather) ==
    type_product(attacker, defender, m, fetch_pokemon_types(defender), One)

adapt(attacker) == attacker.ability = "Adaptability"

orig_match(attacker, m) == fetch_move_type(m) \in SeqToSet(fetch_pokemon_types(attacker))

tera_match(attacker, m) ==
    attacker.is_terastallized /\ attacker.tera_type = fetch_move_type(m)

tera_same_as_orig(attacker) ==
    attacker.is_terastallized
    /\ attacker.tera_type \in SeqToSet(fetch_pokemon_types(attacker))

calculate_stab(attacker, m) ==
    IF fetch_move_type(m) = "Typeless" THEN One
    ELSE IF ~attacker.is_terastallized
    THEN (IF adapt(attacker) /\ orig_match(attacker, m) THEN R(2, 1)
          ELSE IF orig_match(attacker, m) THEN R(3, 2) ELSE One)
    ELSE IF tera_match(attacker, m) /\ tera_same_as_orig(attacker)
    THEN (IF adapt(attacker) THEN R(9, 4) ELSE R(2, 1))
    ELSE IF tera_match(attacker, m) /\ ~tera_same_as_orig(attacker) THEN R(2, 1)
    ELSE IF orig_match(attacker, m) THEN R(3, 2)
    ELSE One

\* modifiers.append(0.925): the random distribution factor.
RandomFactor == R(37, 40)

\* The modifiers in the order the program appends them to its list.  The
\* type-effectiveness call is the only one that can raise; the list then
\* stops before it.
appended_modifiers(first, type_effectiveness, burn_factor) ==
    IF type_effectiveness.ok THEN first \o <<type_effectiveness, burn_factor>>
    ELSE first

damage_modifiers(attacker, defender, m, weather) ==
    appended_modifiers(<<calculate_weather_bonus(m, weather),
                         calculate_glaive_bonus(defender),
                         calculate_determined_critical_hit(attacker, defender, m),
                         RandomFactor,
                         calculate_stab(attacker, m)>>,
                       calculate_type_effectiveness(attacker, defender, m, weather),
                       calculate_burn_factor(attacker, m))

RECURSIVE total_modifier(_, _)
total_modifier(mods, acc) ==
    IF mods = <<>> THEN acc ELSE total_modifier(Tail(mods), RMul(acc, Head(mods)))

\* "not move or move.category not in (PHYSICAL, SPECIAL) or move.base_power == 0"
early_exit_without_power_check(m) == m.category \notin DamagingCategories

early_exit(m) == m.category \notin DamagingCategories \/ m.base_power = 0

\* "return base * total_modifier", once the base and all seven modifiers
\* are there.
damage_product(base, mods) ==
    IF ~base.ok \/ Len(mods) < 7 THEN Raised
    ELSE RMul(base, total_modifier(mods, One))

calculate_expected_damage(attacker, defender, m, weather) ==
    IF attacker = NoPokemon \/ defender = NoPokemon \/ m = NoMove THEN Zero
    ELSE IF early_exit(m) THEN Zero
    ELSE damage_product(calculate_base(attacker, defender, m),
                        damage_modifiers(attacker, defender, m, weather))

(***************************************************************************)
(* Healing and the anticipated moves                                       *)
(***************************************************************************)
calculate_expected_healing(healer, m) ==
    IF fetch_move_name(m) = "Rest"
    THEN Num(healer.max_hp - healer.current_hp)
    ELSE RMin(Num(healer.max_hp - healer.current_hp), R(healer.max_hp, 2))

IsHealingMove(m) == m.category = "STATUS" /\ fetch_move_name(m) \in HEALING_MOVES

fetch_healing_moves(pokemon) == SelectSeq(pokemon.moves, IsHealingMove)

IsOtherStatusMove(m) == m.category = "STATUS" /\ ~IsHealingMove(m)

\* The status moves with the healing moves left in.
fetch_all_status_moves(pokemon) == SelectSeq(pokemon.moves, LAMBDA m : m.category = "STATUS")

\* The status moves with the healing moves removed.
fetch_status_moves(pokemon) == SelectSeq(pokemon.moves, IsOtherStatusMove)

\* Python's max(seq, key=...) / min(seq, key=...) on a non-empty sequence
\* whose keys are all numbers: the index of the first greatest (least) key.
FirstMax(keys) ==
    CHOOSE i \in DOMAIN keys :
        /\ \A j \in DOMAIN keys : RLe(keys[j], keys[i])
        /\ \A j \in 1 .. (i - 1) : RLt(keys[j], keys[i])

FirstMin(keys) ==
    CHOOSE i \in DOMAIN keys :
        /\ \A j \in DOMAIN keys : RLe(keys[i], keys[j])
        /\ \A j \in 1 .. (i - 1) : RLt(keys[i], keys[j])

AllOk(keys) == \A i \in DOMAIN keys : keys[i].ok

\* What a call that returns an entity (a move or a combatant) or None, or
\* raises, ends with.
Returns(x) == [ok |-> TRUE, value |-> x]

Raises == [ok |-> FALSE, value |-> NoMove]

\* max(seq, key=...) and min(seq, key=...) given the key of each element:
\* a key that raises ends the call.
MaxByKey(seq, keys) == IF AllOk(keys) THEN Returns(seq[FirstMax(keys)]) ELSE Raises

MinByKey(seq, keys) == IF AllOk(keys) THEN Returns(seq[FirstMin(keys)]) ELSE Raises

\* max(moves, key=lambda m: calculate_expected_damage(attacker, defender, m, weather))
most_damaging(moves, attacker, defender, weather) ==
    MaxByKey(moves, [i \in DOMAIN moves |->
                        calculate_expected_damage(attacker, defender, moves[i], weather)])

calculate_anticipated_move(attacker, defender, weather) ==
    IF attacker.moves = <<>> THEN Returns(NoMove)
    ELSE most_damaging(attacker.moves, attacker, defender, weather)

calculate_anticipated_status_move(attacker, defender, weather) ==
    IF fetch_status_moves(attacker) = <<>> THEN Returns(NoMove)
    ELSE most_damaging(fetch_status_moves(attacker), attacker, defender, weather)

\* max(moves, key=lambda m: calculate_expected_healing(healer, m))
most_healing(moves, healer) ==
    MaxByKey(moves, [i \in DOMAIN moves |-> calculate_expected_healing(healer, moves[i])])

calculate_anticipated_healing_move(healer) ==
    IF fetch_healing_moves(healer) = <<>> THEN Returns(NoMove)
    ELSE most_healing(fetch_healing_moves(healer), healer)

(***************************************************************************)
(* Value calculations                                                      *)
(***************************************************************************)
\* expected_damage / defender.max_hp, for the move that
\* calculate_anticipated_move ended with.
expected_damage_share(attacker, defender, best_move, weather) ==
    IF ~best_move.ok THEN Raised
    ELSE RDiv(calculate_expected_damage(attacker, defender, best_move.value, weather),
              Num(defender.max_hp))

calculate_threat_value(attacker, defender, weather) ==
    IF attacker = NoPokemon \/ defender = NoPokemon THEN Zero
    ELSE expected_damage_share(attacker, defender,
                               calculate_anticipated_move(attacker, defender, weather),
                               weather)

calculate_best_switch(b) ==
    IF b.available_switches = <<>> THEN Returns(NoPokemon)
    ELSE MinByKey(b.available_switches,
                  [i \in DOMAIN b.available_switches |->
                      calculate_threat_value(b.opponent_active_pokemon,
                                             b.available_switches[i], b.weather)])

\* max(0.0, current_threat - best_switch_threat), for the threat and the
\* substitute that the first two calls ended with.
switch_gain(b, current_threat, best_switch) ==
    IF ~current_threat.ok \/ ~best_switch.ok THEN Raised
    ELSE RMax(Zero,
              RSub(current_threat,
                   calculate_threat_value(b.opponent_active_pokemon,
                                          best_switch.value, b.weather)))

calculate_switch_value(b) ==
    switch_gain(b,
                calculate_threat_value(b.opponent_active_pokemon, b.active_pokemon,
                                       b.weather),
                calculate_best_switch(b))

calculate_attack_value(attacker, defender, weather) ==
    IF attacker = NoPokemon \/ defender = NoPokemon THEN Zero
    ELSE expected_damage_share(attacker, defender,
                               calculate_anticipated_move(attacker, defender, weather),
                               weather)

\* attacker.current_hp / defender.current_hp if a status move was
\* anticipated, else 0.
health_ratio(attacker, defender, anticipated_status_move) ==
    IF ~anticipated_status_move.ok THEN Raised
    ELSE IF anticipated_status_move.value # NoMove
    THEN RDiv(Num(attacker.current_hp), Num(defender.current_hp))
    ELSE Zero

calculate_status_value(attacker, defender, weather) ==
    IF attacker = NoPokemon \/ defender = NoPokemon THEN Zero
    ELSE health_ratio(attacker, defender,
                      calculate_anticipated_status_move(attacker, defender, weather))

\* expected healing / healer.max_hp if a healing move was anticipated,
\* else 0.
healing_share(healer, best_move) ==
    IF best_move.value = NoMove THEN Zero
    ELSE RDiv(calculate_expected_healing(healer, best_move.value), Num(healer.max_hp))

calculate_heal_value(healer) ==
    IF healer = NoPokemon THEN Zero
    ELSE healing_share(healer, calculate_anticipated_healing_move(healer))

(***************************************************************************)
(* Turn order and the choice among the four categories                     *)
(***************************************************************************)
Greater(a, b) == IF a >= b THEN a ELSE b

RECURSIVE MaxPriority(_)
\* max((m.priority for m in moves), default=0)
MaxPriority(moves) ==
    IF moves = <<>> THEN 0
    ELSE IF Len(moves) = 1 THEN moves[1].priority
    ELSE Greater(moves[1].priority, MaxPriority(Tail(moves)))

fetch_acting_first_strict(attacker, defender) ==
    IF attacker = NoPokemon \/ attacker.moves = <<>>
       \/ defender = NoPokemon \/ defender.moves = <<>>
    THEN TRUE
    ELSE IF MaxPriority(attacker.moves) # MaxPriority(defender.moves)
    THEN MaxPriority(attacker.moves) > MaxPriority(defender.moves)
    ELSE EffectiveStat(attacker, "spe") > EffectiveStat(defender, "spe")

fetch_acting_first(attacker, defender) ==
    IF attacker = NoPokemon \/ attacker.moves = <<>>
       \/ defender = NoPokemon \/ defender.moves = <<>>
    THEN TRUE
    ELSE IF MaxPriority(attacker.moves) # MaxPriority(defender.moves)
    THEN MaxPriority(attacker.moves) > MaxPriority(defender.moves)
    ELSE EffectiveStat(attacker, "spe") >= EffectiveStat(defender, "spe")

\* The order of the list "actions".
ActionTypes == <<"SWITCH", "ATTACK", "STATUS", "HEAL">>

ScoreOf(sc, type) ==
    CASE type = "SWITCH" -> sc.switch
      [] type = "ATTACK" -> sc.attack
      [] type = "STATUS" -> sc.status
      [] type = "HEAL" -> sc.heal

\* A max that keeps the last of several equal greatest scores.
last_best_action_type(sc) ==
    ActionTypes[CHOOSE i \in 1 .. 4 :
        /\ \A j \in 1 .. 4 : RLe(ScoreOf(sc, ActionTypes[j]), ScoreOf(sc, ActionTypes[i]))
        /\ \A j \in (i + 1) .. 4 :
              RLt(ScoreOf(sc, ActionTypes[j]), ScoreOf(sc, ActionTypes[i]))]

\* max(actions, key=lambda a: a.score).type
best_action_type(sc) ==
    ActionTypes[FirstMax(<<sc.switch, sc.attack, sc.status, sc.heal>>)]

WeightsNamed(w) == IF w = "first" THEN FIRST_ACTING_WEIGHTS ELSE LAST_ACTING_WEIGHTS

\* The four Action scores: each value times its weight.
weighted_scores(v, w) ==
    [switch |-> RMul(v.switch, WeightsNamed(w).switch),
     attack |-> RMul(v.attack, WeightsNamed(w).attack),
     status |-> RMul(v.status, WeightsNamed(w).status),
     heal |-> RMul(v.heal, WeightsNamed(w).heal)]

\* The call made for the chosen category: the substitute or the move it
\* ends with.
selected_target(b, type) ==
    CASE type = "SWITCH" -> calculate_best_switch(b)
      [] type = "ATTACK" ->
            calculate_anticipated_move(b.active_pokemon, b.opponent_active_pokemon,
                                       b.weather)
      [] type = "STATUS" ->
            calculate_anticipated_status_move(b.active_pokemon,
                                              b.opponent_active_pokemon, b.weather)
      [] type = "HEAL" -> calculate_anticipated_healing_move(b.active_pokemon)

\* The value returned for the chosen category, given what that call ended
\* with.
chosen_action(type, r) ==
    IF r.value = NoMove \/ r.value = NoPokemon THEN [kind |-> "none"]
    ELSE IF type = "SWITCH" THEN [kind |-> "switch", target |-> r.value]
    ELSE [kind |-> "move", move |-> r.value]

(***************************************************************************)
(* Bounds and the inputs drawn from them                                   *)
(***************************************************************************)
\* Base powers are 0, 20, ..., 20 * MaxPowerSteps.
MaxPowerSteps == 2

BasePowers == {20 * k : k \in 0 .. MaxPowerSteps}

Weathers ==
    {"None", "RAINDANCE", "SUNNYDAY", "PRIMORDIALSEA", "DESOLATELAND", "SANDSTORM"}

Mv(id, type, category, base_power, priority) ==
    [id |-> id, type |-> type, category |-> category,
     base_power |-> base_power, priority |-> priority]

\* The moves the estimator is applied to: one for each branch on a move's
\* name, type or category, at every base power.
MoveKinds ==
    {<<"Tackle", "Normal", "PHYSICAL">>, <<"Facade", "Normal", "PHYSICAL">>,
     <<"Storm Throw", "Fighting", "PHYSICAL">>, <<"Flying Press", "Fighting", "PHYSICAL">>,
     <<"Thousand Arrows", "Ground", "PHYSICAL">>, <<"Struggle", "Typeless", "PHYSICAL">>,
     <<"Surf", "Water", "SPECIAL">>, <<"Hydro Steam", "Water", "SPECIAL">>,
     <<"Flamethrower", "Fire", "SPECIAL">>, <<"Freeze-Dry", "Ice", "SPECIAL">>,
     <<"Psychic", "Psychic", "SPECIAL">>, <<"Will-O-Wisp", "Fire", "STATUS">>}

DamageMoves ==
    {Mv(k[1], k[2], k[3], p, 0) : k \in MoveKinds, p \in BasePowers} \cup {NoMove}

Stats(atk, def, spa, spd, spe) ==
    [atk |-> atk, def |-> def, spa |-> spa, spd |-> spd, spe |-> spe]

\* A level 5 Normal-type combatant with nothing special about it.
Plain ==
    [species |-> "Plain", type_1 |-> "Normal", type_2 |-> "None", level |-> 5,
     current_hp |-> 4, max_hp |-> 4,
     stats |-> Stats(2, 2, 2, 2, 2), base_stats |-> Stats(3, 1, 1, 3, 1),
     ability |-> "Pressure", item |-> "None", status |-> "None", effects |-> {},
     is_terastallized |-> FALSE, tera_type |-> "None", moves |-> <<>>]

Unset == Stats(0, 0, 0, 0, 0)

\* Attackers: for each modifier that reads the attacker, every combination
\* of the attributes that modifier reads.
DamageAttackers ==
    {[Plain EXCEPT !.ability = a, !.effects = e] :
        a \in {"None", "Merciless"}, e \in {{}, {"LASER_FOCUS"}}}
    \cup {[Plain EXCEPT !.ability = a, !.status = s] :
        a \in {"None", "Guts"}, s \in {"None", "BRN"}}
    \cup {[Plain EXCEPT !.ability = a, !.is_terastallized = t[1], !.tera_type = t[2]] :
        a \in {"None", "Adaptability"},
        t \in {<<FALSE, "None">>, <<TRUE, "Normal">>, <<TRUE, "Fighting">>}}
    \cup {[Plain EXCEPT !.ability = "Scrappy"],
          [Plain EXCEPT !.stats = Unset],
          [Plain EXCEPT !.level = 100],
          NoPokemon}

DamageDefenders ==
    {[Plain EXCEPT !.ability = a, !.status = s] :
        a \in {"None", "Battle Armor", "Shell Armor", "Pressure"},
        s \in {"None", "PSN"}}
    \cup {[Plain EXCEPT !.type_1 = t[1], !.type_2 = t[2], !.item = i, !.effects = e] :
        t \in {<<"Normal", "None">>, <<"Ghost", "None">>, <<"Water", "Flying">>,
               <<"Dark", "None">>},
        i \in {"None", "Ring Target"},
        e \in {{}, {"FORESIGHT"}, {"MIRACLE_EYE"}}}
    \cup {[Plain EXCEPT !.effects = {"GLAIVE_RUSH"}],
          [Plain EXCEPT !.stats = Unset],
          NoPokemon}

NoBattle ==
    [active_pokemon |-> NoPokemon, opponent_active_pokemon |-> NoPokemon,
     weather |-> "None", available_switches |-> <<>>]

NoScores == [switch |-> Zero, attack |-> Zero, status |-> Zero, heal |-> Zero]

NoResult == [kind |-> "none"]

(***************************************************************************)
(* The damage estimator applied to one attacker, defender, move, weather   *)
(***************************************************************************)
InitDamage ==
    /\ \E a \in DamageAttackers, d \in DamageDefenders, w \in Weathers :
            battle = [active_pokemon |-> a, opponent_active_pokemon |-> d,
                      weather |-> w, available_switches |-> <<>>]
    /\ move \in DamageMoves
    /\ pc = "estimate"
    /\ modifiers = <<>>
    /\ damage = Zero
    /\ values = NoScores
    /\ weights = "none"
    /\ scores = NoScores
    /\ best_action = "none"
    /\ result = NoResult

\* calculate_expected_damage(attacker, defender, move, weather): returns a
\* number, or raises.
CalculateExpectedDamage ==
    /\ pc = "estimate"
    /\ \E d \in {calculate_expected_damage(battle.active_pokemon,
                                            battle.opponent_active_pokemon,
                                            move, battle.weather)} :
        /\ damage' = d
        /\ pc' = IF d.ok THEN "returned" ELSE "raised"
    /\ modifiers' =
            IF battle.active_pokemon = NoPokemon
               \/ battle.opponent_active_pokemon = NoPokemon
               \/ move = NoMove \/ early_exit(move)
            THEN <<>>
            ELSE damage_modifiers(battle.active_pokemon, battle.opponent_active_pokemon,
                                  move, battle.weather)
    /\ UNCHANGED <<battle, move, values, weights, scores, best_action, result>>

NextDamage == CalculateExpectedDamage

SpecDamage == InitDamage /\ [][NextDamage]_vars

(***************************************************************************)
(* The action scorer applied to one battle snapshot                        *)
(***************************************************************************)
\* Health runs over 0 .. MaxHP, a combatant knows at most MaxMoves moves
\* and at most MaxSwitches substitutes are available.
MaxHP == 3

MaxMoves == 2

MaxSwitches == 2

\* The moves a combatant of a snapshot may know, in a fixed order.
KnownMoves ==
    <<Mv("Tackle", "Normal", "PHYSICAL", 40, 0),
      Mv("Quick Attack", "Normal", "PHYSICAL", 20, 1),
      Mv("Struggle", "Typeless", "PHYSICAL", 40, 0),
      Mv("Will-O-Wisp", "Fire", "STATUS", 0, 0),
      Mv("Recover", "Normal", "STATUS", 0, 0),
      Mv("Rest", "Psychic", "STATUS", 0, 0)>>

\* The strictly increasing index sequences of length at most n over 1 .. k.
RECURSIVE Increasing(_, _)
Increasing(k, n) ==
    IF n = 0 THEN {<<>>}
    ELSE Increasing(k, n - 1)
         \cup {Append(q, i) : q \in Increasing(k, n - 1), i \in 1 .. k}

IsIncreasing(q) == \A i \in 1 .. (Len(q) - 1) : q[i] < q[i + 1]

Picks(k, n) == {q \in Increasing(k, n) : IsIncreasing(q)}

MoveLists(k) == {[i \in DOMAIN q |-> KnownMoves[q[i]]] : q \in Picks(k, MaxMoves)}

\* Live speed and base speed of the player: a live stat, or none and a
\* base stat below or above the opponent's speed, which is 2 (live, or
\* unset with base 2).
Speeds == {<<2, 1>>, <<0, 1>>, <<0, 3>>}

Combatant(hp, spe, moves) ==
    [Plain EXCEPT !.current_hp = hp, !.max_hp = MaxHP,
                  !.stats = Stats(2, 2, 2, 2, spe[1]),
                  !.base_stats = Stats(3, 1, 1, 3, spe[2]),
                  !.moves = moves]

Players ==
    {Combatant(hp, spe, ms) : hp \in 0 .. MaxHP, spe \in Speeds, ms \in MoveLists(6)}
    \cup {NoPokemon}

\* The opponent knows at most one of the first three (damaging) moves.
Opponents ==
    {Combatant(hp, spe, ms) :
        hp \in 0 .. MaxHP, spe \in {<<2, 1>>, <<0, 2>>},
        ms \in {m \in MoveLists(3) : Len(m) <= 1}}
    \cup {NoPokemon}

\* The bench: a Ghost type, which Normal moves do not affect, and a
\* Normal type of the same making as the active combatant.
Bench ==
    <<[Plain EXCEPT !.species = "Spectre", !.type_1 = "Ghost", !.max_hp = MaxHP,
                    !.current_hp = MaxHP],
      [Plain EXCEPT !.species = "Reserve", !.max_hp = MaxHP, !.current_hp = MaxHP]>>

SwitchLists ==
    {[i \in DOMAIN q |-> Bench[q[i]]] :
        q \in Picks(2, MaxSwitches)}

Init ==
    /\ \E p \in Players, o \in Opponents, sw \in SwitchLists :
            battle = [active_pokemon |-> p, opponent_active_pokemon |-> o,
                      weather |-> "None", available_switches |-> sw]
    /\ move = NoMove
    /\ pc = "select"
    /\ modifiers = <<>>
    /\ damage = Zero
    /\ values = NoScores
    /\ weights = "none"
    /\ scores = NoScores
    /\ best_action = "none"
    /\ result = NoResult

\* calculate_most_effective_move(battle, battle.active_pokemon,
\* battle.opponent_active_pokemon, battle.weather), as choose_move calls it:
\* returns a move, a switch target or None, or raises.
CalculateMostEffectiveMove ==
    /\ pc = "select"
    /\ IF battle.active_pokemon = NoPokemon \/ battle.opponent_active_pokemon = NoPokemon
       THEN /\ pc' = "returned"
            /\ result' = [kind |-> "none"]
            /\ UNCHANGED <<values, weights, scores, best_action>>
       \* The four values in the order the program computes them; the first
       \* one that raises ends the call, and the later ones are never computed.
       ELSE \E sw \in {calculate_switch_value(battle)} :
            \E st \in {IF sw.ok
                       THEN calculate_status_value(battle.active_pokemon,
                                                   battle.opponent_active_pokemon,
                                                   battle.weather)
                       ELSE Raised} :
            \E at \in {IF st.ok
                       THEN calculate_attack_value(battle.active_pokemon,
                                                   battle.opponent_active_pokemon,
                                                   battle.weather)
                       ELSE Raised} :
            \E he \in {IF at.ok THEN calculate_heal_value(battle.active_pokemon)
                       ELSE Raised} :
            \E v \in {[switch |-> sw, attack |-> at, status |-> st, heal |-> he]} :
            IF ~(v.switch.ok /\ v.status.ok /\ v.attack.ok /\ v.heal.ok)
            THEN /\ pc' = "raised"
                 /\ values' = v
                 /\ UNCHANGED <<weights, scores, best_action, result>>
            ELSE \E w \in {IF fetch_acting_first(battle.active_pokemon,
                                                 battle.opponent_active_pokemon)
                            THEN "first" ELSE "last"} :
                 \E sc \in {weighted_scores(v, w)} :
                 \E best \in {best_action_type(sc)} :
                 \E r \in {selected_target(battle, best)} :
                    /\ pc' = "returned"
                    /\ values' = v
                    /\ weights' = w
                    /\ scores' = sc
                    /\ best_action' = best
                    /\ result' = chosen_action(best, r)
    /\ UNCHANGED <<battle, move, modifiers, damage>>

Next == CalculateMostEffectiveMove

Spec == Init /\ [][Next]_vars

(***************************************************************************)
(* Properties of the action scorer (checked under Spec)                    *)
(***************************************************************************)
Player == battle.active_pokemon

Opponent == battle.opponent_active_pokemon

BothPresent == Player # NoPokemon /\ Opponent # NoPokemon

\* C1: with both active combatants present, the category select_action
\* chooses has the greatest of the four weighted scores, and among equal
\* greatest scores it is the earliest of switch, attack, status, heal.
C1_ChosenCategoryIsFirstMaximum ==
    (pc = "returned" /\ BothPresent) =>
        \E i \in 1 .. 4 :
            /\ best_action = ActionTypes[i]
            /\ \A j \in 1 .. 4 :
                  RLe(ScoreOf(scores, ActionTypes[j]), ScoreOf(scores, ActionTypes[i]))
            /\ \A j \in 1 .. (i - 1) :
                  RLt(ScoreOf(scores, ActionTypes[j]), ScoreOf(scores, ActionTypes[i]))

\* A choice made on a tie: a later category scores exactly as much as the
\* chosen one.
C1_TieDecided ==
    /\ pc = "returned"
    /\ BothPresent
    /\ \E i, j \in 1 .. 4 :
        /\ i < j
        /\ best_action = ActionTypes[i]
        /\ ScoreOf(scores, ActionTypes[j]) = ScoreOf(scores, ActionTypes[i])

\* C2: with no available switch target the switch value is 0 and the
\* switch category is never the one selected, whatever the opponent's
\* threat.  Stated here for an opponent that knows a move.
C2_NoSwitchTargetAsClaimed ==
    (/\ pc = "returned"
     /\ BothPresent
     /\ battle.available_switches = <<>>
     /\ Opponent.moves # <<>>)
    => (values.switch = Zero /\ best_action # "SWITCH")

IsDamagingMove(m) == m.category \in DamagingCategories /\ m.base_power > 0

NoCandidates ==
    /\ \A i \in DOMAIN Player.moves :
          /\ ~IsDamagingMove(Player.moves[i])
          /\ Player.moves[i].category # "STATUS"
    /\ battle.available_switches = <<>>

\* C3: with no damaging, status or healing move and no switch target,
\* select_action returns None: not a move, not a switch target, not an
\* error.
C3_NothingToChooseAsClaimed ==
    (pc # "select" /\ BothPresent /\ NoCandidates) =>
        (pc = "returned" /\ result = [kind |-> "none"])

AllTypesCharted ==
    /\ \A i \in DOMAIN Player.moves : fetch_move_type(Player.moves[i]) \in ChartTypes
    /\ \A i \in DOMAIN Opponent.moves : fetch_move_type(Opponent.moves[i]) \in ChartTypes

\* C5: on a snapshot that conforms to the data model (any health in
\* 0 .. max, any moves and switch candidates) select_action never ends in
\* an exception.  Stated here for the snapshots all of whose move types
\* the type chart knows.
C5_NeverRaisesAsClaimed ==
    (BothPresent /\ AllTypesCharted) => pc # "raised"

\* The heal value as the claim defines it: Rest is a healing move too.
ClaimedHealingMoves(p) ==
    {m \in SeqToSet(p.moves) :
        m.category = "STATUS" /\ fetch_move_name(m) \in HEALING_MOVES \cup {"Rest"}}

ClaimedHealing(p, m) ==
    IF fetch_move_name(m) = "Rest" THEN Num(p.max_hp - p.current_hp)
    ELSE RMin(Num(p.max_hp - p.current_hp), R(p.max_hp, 2))

ClaimedHealValue(p) ==
    LET hs == {ClaimedHealing(p, m) : m \in ClaimedHealingMoves(p)}
    IN  IF hs = {} THEN Zero
        ELSE RDiv(CHOOSE x \in hs : \A y \in hs : RLe(y, x), Num(p.max_hp))

\* C8: the heal value is the largest expected healing over the healing
\* moves, Rest among them (it heals max - current), divided by the
\* maximum health; so max - current over max when Rest is the only one.
C8_HealValueAsClaimed ==
    (pc = "returned" /\ BothPresent) => values.heal = ClaimedHealValue(Player)

HighestPriority(p) ==
    CHOOSE x \in {m.priority : m \in SeqToSet(p.moves)} :
        \A m \in SeqToSet(p.moves) : m.priority <= x

EffectiveSpeed(p) == IF p.stats.spe # 0 THEN p.stats.spe ELSE p.base_stats.spe

ActsFirstAsClaimed ==
    \/ Player.moves = <<>>
    \/ Opponent.moves = <<>>
    \/ HighestPriority(Player) > HighestPriority(Opponent)
    \/ /\ HighestPriority(Player) = HighestPriority(Opponent)
       /\ EffectiveSpeed(Player) >= EffectiveSpeed(Opponent)

\* C9: the attacker counts as acting first, and the four scores are the
\* values times FIRST_ACTING_WEIGHTS, when either side knows no move, or
\* its highest move priority is the greater, or the priorities are equal
\* and its effective speed is at least the defender's; otherwise the
\* scores are the values times LAST_ACTING_WEIGHTS.
C9_TurnOrderSelectsWeights ==
    (pc = "returned" /\ BothPresent) =>
        LET table == IF ActsFirstAsClaimed THEN FIRST_ACTING_WEIGHTS
                     ELSE LAST_ACTING_WEIGHTS
        IN  /\ weights = (IF ActsFirstAsClaimed THEN "first" ELSE "last")
            /\ scores.switch = RMul(values.switch, table.switch)
            /\ scores.attack = RMul(values.attack, table.attack)
            /\ scores.status = RMul(values.status, table.status)
            /\ scores.heal = RMul(values.heal, table.heal)

\* Equal priorities and equal effective speeds, one of them a base stat:
\* the attacker acts first, and the attack weight 0.9 shows in its score.
C9_SpeedTieActsFirst ==
    /\ pc = "returned"
    /\ BothPresent
    /\ Player.moves # <<>>
    /\ Opponent.moves # <<>>
    /\ HighestPriority(Player) = HighestPriority(Opponent)
    /\ EffectiveSpeed(Player) = EffectiveSpeed(Opponent)
    /\ Player.stats.spe # Opponent.stats.spe
    /\ weights = "first"
    /\ RLt(Zero, scores.attack)
    /\ scores.attack = RMul(values.attack, R(9, 10))

\* The returned value is a move the active combatant knows.
ReturnsOwnMove == result.kind = "move" /\ result.move \in SeqToSet(Player.moves)

\* C11: with both active combatants present, None is returned only when
\* switch is the selected category and no switch target is available; when
\* attack, status or heal is selected, its weighted score is strictly
\* positive and the returned value is a move of the active combatant of
\* that kind: one with positive expected damage, a status move outside
\* HEALING_MOVES, or a status move in HEALING_MOVES.
C11_ReturnedActionFitsCategory ==
    (pc = "returned" /\ BothPresent) =>
        /\ result.kind = "none" =>
              best_action = "SWITCH" /\ battle.available_switches = <<>>
        /\ best_action = "ATTACK" =>
              /\ RLt(Zero, scores.attack)
              /\ ReturnsOwnMove
              /\ LET d == calculate_expected_damage(Player, Opponent, result.move,
                                                    battle.weather)
                 IN  d.ok /\ RLt(Zero, d)
        /\ best_action = "STATUS" =>
              /\ RLt(Zero, scores.status)
              /\ ReturnsOwnMove
              /\ result.move.category = "STATUS"
              /\ fetch_move_name(result.move) \notin HEALING_MOVES
        /\ best_action = "HEAL" =>
              /\ RLt(Zero, scores.heal)
              /\ ReturnsOwnMove
              /\ result.move.category = "STATUS"
              /\ fetch_move_name(result.move) \in HEALING_MOVES

\* Heal is selected over a positive status score, the combatant knowing a
\* status move outside HEALING_MOVES too, and a healing move is returned.
C11_HealChosenOverOthers ==
    /\ pc = "returned"
    /\ BothPresent
    /\ best_action = "HEAL"
    /\ RLt(Zero, scores.status)
    /\ fetch_status_moves(Player) # <<>>
    /\ ReturnsOwnMove
    /\ fetch_move_name(result.move) \in HEALING_MOVES

(***************************************************************************)
(* Properties of the damage estimator (checked under SpecDamage)           *)
(***************************************************************************)
Estimated == pc \in {"returned", "raised"}

\* C4: the estimate is exactly 0, and nothing is raised, whenever the
\* attacker, the defender or the move is absent, the move's category is
\* not a damaging one, or its base power is 0.
C4_ZeroWithoutRaising ==
    (/\ Estimated
     /\ \/ Player = NoPokemon
        \/ Opponent = NoPokemon
        \/ move = NoMove
        \/ move.category = "STATUS"
        \/ move.base_power = 0)
    => (pc = "returned" /\ damage = Zero)

\* A physical move of base power 0 whose type the chart does not know,
\* both combatants present: the estimate is 0 although the pipeline
\* would raise.
C4_ZeroPowerReturned ==
    /\ pc = "returned"
    /\ BothPresent
    /\ move # NoMove
    /\ move.category = "PHYSICAL"
    /\ move.base_power = 0
    /\ move.type = "Typeless"
    /\ damage = Zero

PairCharted(a, d) == a \in ChartTypes /\ d \in ChartTypes

RECURSIVE NeutralProduct(_, _, _, _)
\* The product over the defender's types in which a pair the chart does
\* not contain counts 1.0.
NeutralProduct(attacker, defender, m, types) ==
    IF types = <<>> THEN One
    ELSE RMul(IF PairCharted(fetch_move_type(m), Head(types))
              THEN type_factor(attacker, defender, m, Head(types))
              ELSE One,
              NeutralProduct(attacker, defender, m, Tail(types)))

\* C6: a (move type, defending type) pair that the type chart does not
\* contain contributes exactly 1.0 to the type-effectiveness modifier and
\* never an error.
C6_UnknownPairNeutralAsClaimed ==
    (/\ Estimated
     /\ BothPresent
     /\ move # NoMove
     /\ ~early_exit(move)
     /\ \E t \in SeqToSet(fetch_pokemon_types(Opponent)) :
            ~PairCharted(fetch_move_type(move), t))
    => /\ pc = "returned"
       /\ Len(modifiers) = 7
       /\ modifiers[6] = NeutralProduct(Player, Opponent, move,
                                        fetch_pokemon_types(Opponent))

\* C7: the critical-hit modifier is 1.0 against Battle Armor and Shell
\* Armor; against any other defender, one with no ability or no status
\* included, it is 1.5 for an always-critical move, for a poisoned
\* defender facing Merciless, and for an attacker under laser focus, and
\* 1.0 otherwise.
C7_CriticalHitAsClaimed ==
    (Estimated /\ Len(modifiers) >= 3) =>
        modifiers[3] = critical_hit_as_specified(Player, Opponent, move)

\* C10: the estimate does not decrease with the base power: a move that
\* differs from the estimated one only in a lower base power (0 included)
\* is estimated no higher.
C10_MonotoneInBasePower ==
    (pc = "returned" /\ BothPresent /\ move # NoMove) =>
        \A p \in BasePowers :
            p <= move.base_power =>
                LET lower == calculate_expected_damage(
                                 Player, Opponent, [move EXCEPT !.base_power = p],
                                 battle.weather)
                IN  lower.ok /\ RLe(lower, damage)

\* Three base powers with strictly increasing estimates: 0 at power 0,
\* more at 20, more again at 40.
C10_StrictlyMore ==
    /\ pc = "returned"
    /\ BothPresent
    /\ move # NoMove
    /\ move.base_power = 40
    /\ LET at20 == calculate_expected_damage(
                       Player, Opponent, [move EXCEPT !.base_power = 20],
                       battle.weather)
       IN  at20.ok /\ RLt(Zero, at20) /\ RLt(at20, damage)

====
